---------------------------- MODULE Spec2Model ----------------------------
(***************************************************************************)
(* A model of the compressed-sparse-fiber crate (src/src/lib.rs): the      *)
(* prefix tree that collects the rows, its breadth-first compilation into  *)
(* the level arrays fptr / fids / vals, the queries expand_row and         *)
(* sum_column, and the iterator cursor.                                    *)
(*                                                                         *)
(* Indices are the source's: 0-based.  At(s, i) reads s[i] of a Rust Vec.  *)
(* A Rust panic (index out of bounds, arithmetic under/overflow) is the    *)
(* result Panic; operators propagate it as unwinding does.                 *)
(***************************************************************************)
EXTENDS Integers, Sequences, FiniteSets

\* ------------------------------------------------------------ bounds
\* longest coordinate tuple (number of levels D) of an inserted row
MaxD == 3
\* most distinct rows inserted before the build
MaxRows == 3
\* longest level row of an instance handed to `new` directly
MaxGroup == 2
\* calls of next() made after the iterator is exhausted
MaxExtra == 2

\* the coordinate type U (Ord + Hash + Copy): two ordered labels
Coord == {1, 2}
\* the value type T (Copy): two values
Val == {1, 2}

VARIABLES
    phase,       \* "trie": rows are being inserted; "built": compiled from the
                 \* trie; "new": made by CompressedSparseFiber::new
    trie,        \* the SequenceTrie: key (coordinate tuple) -> value
    input,       \* history: every (coords, value) row inserted so far
    csf,         \* the instance: [fptr, fids, vals]
    next_index,  \* _state.next_index
    yielded,     \* history: the rows next() has returned, in order
    op,          \* the last operation called on the instance
    returned     \* what it returned

vars == <<phase, trie, input, csf, next_index, yielded, op, returned>>

\* ------------------------------------------------------------ helpers
At(s, i) == s[i + 1]

Panic == [tag |-> "panic"]
Ok(v) == [tag |-> "ok", val |-> v]
None == [tag |-> "None"]
Some(v) == [tag |-> "Some", val |-> v]

RECURSIVE SumSeq(_)
SumSeq(s) == IF s = <<>> THEN 0 ELSE Head(s) + SumSeq(Tail(s))

RECURSIVE Concat(_)
Concat(ss) == IF ss = <<>> THEN <<>> ELSE Head(ss) \o Concat(Tail(ss))

IsPrefix(p, k) == Len(p) <= Len(k) /\ SubSeq(k, 1, Len(p)) = p

\* ------------------------------------------------------------ the trie
EmptyTrie == <<>>

\* SequenceTrie::insert: the value at the key is set, replacing an older one
TrieInsert(t, key, x) ==
    [k \in DOMAIN t \cup {key} |-> IF k = key THEN x ELSE t[k]]

\* the iteration orders of a node's children HashMap: any order of the keys
HashOrders ==
    {h \in [1..Cardinality(Coord) -> Coord] : \A a, b \in DOMAIN h : h[a] = h[b] => a = b}

\* SequenceTrie::children_with_keys: the (key, child) pairs of a node, in the
\* HashMap's iteration order h.  A node is named by its path from the root.
children_with_keys(t, node, h) ==
    LET present(c) == \E k \in DOMAIN t : IsPrefix(Append(node, c), k)
        ks == SelectSeq(h, present)
    IN  [n \in 1..Len(ks) |-> <<ks[n], Append(node, ks[n])>>]

\* SequenceTrie::value of a node: Some(&v) or None
HasValue(t, node) == node \in DOMAIN t

\* ------------------------------------------------------------ the sort
\* one step of a stable insertion: e goes after every element whose key is <= its own
RECURSIVE InsertByKey(_, _)
InsertByKey(s, e) ==
    IF s = <<>> THEN <<e>>
    ELSE IF e[1] < Head(s)[1] THEN <<e>> \o s
    ELSE <<Head(s)>> \o InsertByKey(Tail(s), e)

RECURSIVE SortFrom(_, _)
SortFrom(done, rest) ==
    IF rest = <<>> THEN done ELSE SortFrom(InsertByKey(done, Head(rest)), Tail(rest))

\* mutant: the sort left out, the pairs stay in the HashMap's order
sort_by_key_unsorted(x) == x

\* mutant: the comparison turned round, b.cmp(a)
sort_by_key_descending(x) ==
    LET asc == SortFrom(<<>>, x)
    IN  [n \in 1..Len(asc) |-> asc[Len(asc) + 1 - n]]

\* x.sort_by(|(a, _), (b, _)| a.cmp(b)): stable, ascending by key
sort_by_key(x) == SortFrom(<<>>, x)


\* ------------------------------------------------------------ the instance
\* CompressedSparseFiber::new
new(fptr, fids, vals) == [fptr |-> fptr, fids |-> fids, vals |-> vals]

\* one pass of the while loop over the frontier i: the flat_map's sorted
\* (key, child) pairs of every node, and the pointer row of running offsets
PassPairs(t, i, h) ==
    Concat([n \in 1..Len(i) |-> sort_by_key(children_with_keys(t, i[n], h))])

\* mutant: the pointer row starts empty instead of at vec![0]
PassFptrRow_no_zero(t, i, h) ==
    LET cnt(n) == Len(children_with_keys(t, i[n], h))
        RECURSIVE offset(_)
        offset(n) == IF n = 0 THEN 0 ELSE offset(n - 1) + cnt(n)
    IN  [n \in 1..Len(i) |-> offset(n)]

PassFptrRow(t, i, h) ==
    LET cnt(n) == Len(children_with_keys(t, i[n], h))
        RECURSIVE offset(_)
        offset(n) == IF n = 0 THEN 0 ELSE offset(n - 1) + cnt(n)
    IN  <<0>> \o [n \in 1..Len(i) |-> offset(n)]

\* the while loop of From<&SequenceTrie>::from
RECURSIVE from_loop(_, _, _, _, _, _, _)
from_loop(t, h, i, fids, fptr, vals, initial) ==
    IF i = <<>> THEN new(fptr, fids, vals)
    ELSE
        LET pairs    == PassPairs(t, i, h)
            fptr_row == PassFptrRow(t, i, h)
            keys     == [n \in 1..Len(pairs) |-> pairs[n][1]]
            children == [n \in 1..Len(pairs) |-> pairs[n][2]]
            valued(c) == HasValue(t, c)
            withval  == SelectSeq(children, valued)
            values   == [n \in 1..Len(withval) |-> t[withval[n]]]
        IN  from_loop(t, h, children,
                      IF keys # <<>> THEN Append(fids, keys) ELSE fids,
                      IF keys # <<>> /\ ~initial THEN Append(fptr, fptr_row) ELSE fptr,
                      vals \o values,
                      IF keys # <<>> THEN FALSE ELSE initial)

\* From<&SequenceTrie>::from, the children maps iterating in order h
from_trie(t, h) == from_loop(t, h, << <<>> >>, <<>>, <<>>, <<>>, TRUE)

\* ------------------------------------------------------------ expand_row
\* dim: the first j whose pointer exceeds index gives the parent j - 1.
\* self.fptr[level] panics past the last pointer row; j - 1 underflows at
\* j = 0 (a panic in a debug build, an out-of-bounds index in a release one);
\* self.fids[level][j - 1] panics past the end of the level.
RECURSIVE dim_scan(_, _, _, _)
dim_scan(c, level, index, j) ==
    IF j >= Len(At(c.fptr, level)) THEN None
    ELSE IF At(At(c.fptr, level), j) > index
         THEN IF j = 0 \/ level >= Len(c.fids) \/ j - 1 >= Len(At(c.fids, level))
              THEN Panic
              ELSE Some(<<j - 1, At(At(c.fids, level), j - 1)>>)
         ELSE dim_scan(c, level, index, j + 1)

\* mutant: v >= index in place of v > index
RECURSIVE dim_scan_ge(_, _, _, _)
dim_scan_ge(c, level, index, j) ==
    IF j >= Len(At(c.fptr, level)) THEN None
    ELSE IF At(At(c.fptr, level), j) >= index
         THEN IF j = 0 \/ level >= Len(c.fids) \/ j - 1 >= Len(At(c.fids, level))
              THEN Panic
              ELSE Some(<<j - 1, At(At(c.fids, level), j - 1)>>)
         ELSE dim_scan_ge(c, level, index, j + 1)

dim_ge(c, level, index) ==
    IF level >= Len(c.fptr) THEN Panic ELSE dim_scan_ge(c, level, index, 0)

dim(c, level, index) ==
    IF level >= Len(c.fptr) THEN Panic ELSE dim_scan(c, level, index, 0)

RECURSIVE reverse(_)
reverse(s) == IF s = <<>> THEN <<>> ELSE Append(reverse(Tail(s)), Head(s))

\* for x in (0..depth - 1).rev(): x is the level still to do, -1 when done;
\* result is pushed leaf first
RECURSIVE expand_loop(_, _, _, _)
expand_loop(c, x, current_index, result) ==
    IF x < 0 THEN Ok(result)
    ELSE LET d == dim(c, x, current_index)
         IN  IF d.tag = "panic" THEN Panic
             ELSE IF d.tag = "Some"
                  THEN expand_loop(c, x - 1, d.val[1], Append(result, d.val[2]))
                  ELSE expand_loop(c, x - 1, current_index, result)

\* mutant: result.reverse() left out
expand_row_no_reverse(c, index) ==
    IF index >= Len(c.vals) THEN Panic
    ELSE LET depth == Len(c.fids)
         IN  IF depth = 0 THEN Panic
             ELSE IF index >= Len(At(c.fids, depth - 1)) THEN Panic
             ELSE LET r == expand_loop(c, depth - 2, index,
                                       <<At(At(c.fids, depth - 1), index)>>)
                  IN  IF r.tag = "panic" THEN Panic
                      ELSE Ok(<<r.val, At(c.vals, index)>>)

expand_row(c, index) ==
    IF index >= Len(c.vals) THEN Panic
    ELSE LET depth == Len(c.fids)
         IN  IF depth = 0 THEN Panic
             ELSE IF index >= Len(At(c.fids, depth - 1)) THEN Panic
             ELSE LET r == expand_loop(c, depth - 2, index,
                                       <<At(At(c.fids, depth - 1), index)>>)
                  IN  IF r.tag = "panic" THEN Panic
                      ELSE Ok(<<reverse(r.val), At(c.vals, index)>>)

\* ------------------------------------------------------------ sum_column
\* combine: each consecutive pointer pair (i, j) sums current_weights[i..j];
\* fptr_row[1..] panics on an empty row, the slice on i > j or j past the end
combine(current_weights, fptr_row) ==
    IF Len(fptr_row) = 0 THEN Panic
    ELSE IF \E k \in 1..(Len(fptr_row) - 1) :
                \/ fptr_row[k] > fptr_row[k + 1]
                \/ fptr_row[k + 1] > Len(current_weights)
         THEN Panic
         ELSE Ok([k \in 1..(Len(fptr_row) - 1) |->
                    SumSeq(SubSeq(current_weights, fptr_row[k] + 1, fptr_row[k + 1]))])

\* the rfold over fptr[col_index .. len - 1]: level runs from len - 2 down to col_index
RECURSIVE weights_fold(_, _, _, _)
weights_fold(c, col_index, level, w) ==
    IF level < col_index THEN Ok(w)
    ELSE LET r == combine(w, At(c.fptr, level))
         IN  IF r.tag = "panic" THEN Panic
             ELSE weights_fold(c, col_index, level - 1, r.val)

\* mutant: the leaf-group sizes are returned without the fold
weights_no_fold(c, col_index) ==
    IF Len(c.fptr) = 0 THEN Panic
    ELSE LET fptr_row == At(c.fptr, Len(c.fptr) - 1)
         IN  IF Len(fptr_row) = 0 THEN Panic
             ELSE IF \E k \in 1..(Len(fptr_row) - 1) : fptr_row[k + 1] < fptr_row[k]
             THEN Panic
             ELSE IF col_index > Len(c.fptr) - 1 THEN Panic
             ELSE Ok([k \in 1..(Len(fptr_row) - 1) |-> fptr_row[k + 1] - fptr_row[k]])

\* weights: the leaf-group sizes of the deepest pointer row, folded upwards.
\* len - 1 underflows on an instance with no pointer row (a panic, or an
\* out-of-bounds index where the subtraction wraps); y - x underflows on a
\* decreasing row (a panic with overflow checks on; no instance made here
\* has such a row); the range col_index .. len - 1 panics when col_index
\* exceeds len - 1.
weights(c, col_index) ==
    IF Len(c.fptr) = 0 THEN Panic
    ELSE LET fptr_row == At(c.fptr, Len(c.fptr) - 1)
         IN  IF Len(fptr_row) = 0 THEN Panic
             ELSE IF \E k \in 1..(Len(fptr_row) - 1) : fptr_row[k + 1] < fptr_row[k]
             THEN Panic
             ELSE IF col_index > Len(c.fptr) - 1 THEN Panic
             ELSE weights_fold(c, col_index, Len(c.fptr) - 2,
                               [k \in 1..(Len(fptr_row) - 1) |->
                                    fptr_row[k + 1] - fptr_row[k]])

\* std::iter::repeat(x).take(y).sum()
RECURSIVE repeat_sum(_, _)
repeat_sum(x, y) == IF y = 0 THEN 0 ELSE x + repeat_sum(x, y - 1)

Min(a, b) == IF a <= b THEN a ELSE b

\* the branch of sum_column on a level that exists
SumOfLevel(c, col_index) ==
    LET row == At(c.fids, col_index)
    IN  IF col_index = Len(c.fptr) THEN Ok(SumSeq(row))
        ELSE LET w == weights(c, col_index)
             IN  IF w.tag = "panic" THEN Panic
                 ELSE Ok(SumSeq([k \in 1..Min(Len(row), Len(w.val)) |->
                                   repeat_sum(row[k], w.val[k])]))

\* mutant: a missing level reads as an empty row (fids.get(col_index)), sum 0
sum_column_lenient(c, col_index) ==
    IF col_index >= Len(c.fids) THEN Ok(0) ELSE SumOfLevel(c, col_index)

\* mutant: col_index = D is taken to mean the value array
sum_column_value_array(c, col_index) ==
    IF col_index = Len(c.fids) THEN Ok(SumSeq(c.vals))
    ELSE IF col_index > Len(c.fids) THEN Panic
    ELSE SumOfLevel(c, col_index)

\* self.fids[col_index] panics past the last level
sum_column(c, col_index) ==
    IF col_index >= Len(c.fids) THEN Panic ELSE SumOfLevel(c, col_index)

\* ------------------------------------------------------------ the iterator
\* Iterator::next: the cursor after the call, and what the call returns
next_cursor(n) == n + 1

\* mutant: next_index < self.vals.len() in place of <=
next_item_lt(c, n) ==
    IF n < Len(c.vals)
    THEN LET r == expand_row(c, n - 1) IN IF r.tag = "panic" THEN Panic ELSE Some(r.val)
    ELSE None

\* mutant: the bound tested on the index of the row, next_index - 1 <= len
next_item_past_end(c, n) ==
    IF n - 1 <= Len(c.vals)
    THEN LET r == expand_row(c, n - 1) IN IF r.tag = "panic" THEN Panic ELSE Some(r.val)
    ELSE None

next_item(c, n) ==
    IF n <= Len(c.vals)
    THEN LET r == expand_row(c, n - 1) IN IF r.tag = "panic" THEN Panic ELSE Some(r.val)
    ELSE None

\* ------------------------------------------------------------ instances given to `new`
\* tests::sample_csf
sample_csf ==
    new(<< <<0, 2, 3>>, <<0, 1, 3, 4>>, <<0, 2, 4, 5, 8>> >>,
        << <<1, 2>>, <<1, 2, 2>>, <<1, 1, 2, 2>>, <<2, 3, 1, 3, 1, 1, 2, 3>> >>,
        <<1, 2, 3, 4, 5, 6, 7, 8>>)

\* the pointer rows over a level of n entries whose children are m entries:
\* n + 1 nondecreasing offsets from 0 to m (a group may be empty)
PtrRows(n, m) ==
    {p \in [1..(n + 1) -> 0..m] :
        /\ p[1] = 0
        /\ p[n + 1] = m
        /\ \A k \in 1..n : p[k] <= p[k + 1]}

\* a level row whose entries are told apart by their position
Labels(n) == [k \in 1..n |-> k]

\* the well-formed level arrays of d levels, rows of at most MaxGroup entries
RECURSIVE Shapes(_)
Shapes(d) ==
    IF d = 1 THEN {[fids |-> <<Labels(n)>>, fptr |-> <<>>] : n \in 0..MaxGroup}
    ELSE UNION {
            {[fids |-> Append(s.fids, Labels(m)), fptr |-> Append(s.fptr, p)] :
                p \in PtrRows(Len(s.fids[d - 1]), m)} :
            s \in Shapes(d - 1), m \in 0..MaxGroup}

\* a shape whose deepest pointer row lost its last offset: `new` checks nothing
CutShort(s) ==
    LET n == Len(s.fptr)
    IN  [s EXCEPT !.fptr[n] = SubSeq(s.fptr[n], 1, Len(s.fptr[n]) - 1)]

\* what the model hands to `new`: the tests' sample, the empty instance,
\* every well-formed shape, and every shape with a pointer row cut short;
\* the values are 11, 12, ... in leaf order
NewShapes ==
    LET good == UNION {Shapes(d) : d \in 1..MaxD}
    IN  good \cup {CutShort(s) : s \in {g \in good : Len(g.fptr) >= 1}}

NewInstances ==
    {sample_csf, new(<<>>, <<>>, <<>>)} \cup
    {new(s.fptr, s.fids, [k \in 1..Len(s.fids[Len(s.fids)]) |-> 10 + k]) :
        s \in NewShapes}

\* ------------------------------------------------------------ the state machine
NoOp == [name |-> "none", arg |-> 0]
NoCsf == new(<<>>, <<>>, <<>>)

Init ==
    /\ phase = "trie"
    /\ trie = EmptyTrie
    /\ input = {}
    /\ csf = NoCsf
    /\ next_index = 0
    /\ yielded = <<>>
    /\ op = NoOp
    /\ returned = None

\* the rows a caller may insert next: tuples of one length (the documented
\* precondition of the build), at most MaxRows distinct rows in all
Tuples == UNION {[1..d -> Coord] : d \in 1..MaxD}

\* trie.insert(row, *x): one turn of the loop of From<&Rows>::from, or one
\* insert into the builder's rows
insert(row, x) ==
    /\ phase = "trie"
    /\ \A k \in DOMAIN trie : Len(k) = Len(row)
    /\ Cardinality(input \cup {<<row, x>>}) <= MaxRows
    /\ trie' = TrieInsert(trie, row, x)
    /\ input' = input \cup {<<row, x>>}
    /\ UNCHANGED <<phase, csf, next_index, yielded, op, returned>>

\* CompressedSparseFiber::from(&trie): the end of From<&Rows>::from and of
\* CompressedSparseFiberBuilder::build; the cursor starts at 0
from(h) ==
    /\ phase = "trie"
    /\ csf' = from_trie(trie, h)
    /\ phase' = "built"
    /\ next_index' = 0
    /\ UNCHANGED <<trie, input, yielded, op, returned>>

\* CompressedSparseFiber::new called directly, as the tests do
Construct ==
    /\ phase = "trie"
    /\ trie = EmptyTrie
    /\ \E c \in NewInstances : csf' = c
    /\ phase' = "new"
    /\ next_index' = 0
    /\ UNCHANGED <<trie, input, yielded, op, returned>>

Calls == IF op.name = "next" THEN op.arg ELSE 0

\* Iterator::next
next ==
    /\ phase \in {"built", "new"}
    /\ Calls < Len(csf.vals) + MaxExtra
    /\ next_index' = next_cursor(next_index)
    /\ returned' = next_item(csf, next_index')
    /\ yielded' = IF returned'.tag = "Some" THEN Append(yielded, returned'.val) ELSE yielded
    /\ op' = [name |-> "next", arg |-> Calls + 1]
    /\ UNCHANGED <<phase, trie, input, csf>>

\* expand_row(index), index up to one past the leaves
ExpandRow(index) ==
    /\ phase \in {"built", "new"}
    /\ returned' = expand_row(csf, index)
    /\ op' = [name |-> "expand_row", arg |-> index]
    /\ UNCHANGED <<phase, trie, input, csf, next_index, yielded>>

\* sum_column(col_index), col_index up to one past the level count
SumColumn(col_index) ==
    /\ phase \in {"built", "new"}
    /\ returned' = sum_column(csf, col_index)
    /\ op' = [name |-> "sum_column", arg |-> col_index]
    /\ UNCHANGED <<phase, trie, input, csf, next_index, yielded>>

\* construction followed by iteration
Next ==
    \/ \E row \in Tuples, x \in Val : insert(row, x)
    \/ \E h \in HashOrders : from(h)
    \/ Construct
    \/ next

Spec == Init /\ [][Next]_vars

\* construction followed by one query: both queries take &self and leave the
\* instance as it was, so a second query reaches no state the first does not
NextQuery ==
    \/ \E row \in Tuples, x \in Val : insert(row, x)
    \/ \E h \in HashOrders : from(h)
    \/ Construct
    \/ op = NoOp /\ \E index \in 0..(Len(csf.vals) + 1) : ExpandRow(index)
    \/ op = NoOp /\ \E col_index \in 0..(Len(csf.fids) + 1) : SumColumn(col_index)

SpecQuery == Init /\ [][NextQuery]_vars

\* construction alone
NextBuild ==
    \/ \E row \in Tuples, x \in Val : insert(row, x)
    \/ \E h \in HashOrders : from(h)

SpecBuild == Init /\ [][NextBuild]_vars

\* ------------------------------------------------------------ what the claims speak of
\* no coordinate tuple carries two values
Consistent(rows) == \A a, b \in rows : a[1] = b[1] => a[2] = b[2]

\* the common tuple length D of a non-empty input
RowLen(rows) == CHOOSE d \in 1..MaxD : \A r \in rows : Len(r[1]) = d

Nondecreasing(p) == \A k \in 1..(Len(p) - 1) : p[k] <= p[k + 1]

StrictlyAscending(s) == \A k \in 1..(Len(s) - 1) : s[k] < s[k + 1]

\* a < b in lexicographic order, for tuples of one length
LexLess(a, b) ==
    \E k \in 1..Len(a) : a[k] < b[k] /\ \A m \in 1..(k - 1) : a[m] = b[m]

\* the structural invariants of an instance of d >= 1 levels
WellFormed(c, d) ==
    /\ Len(c.fids) = d
    /\ Len(c.fptr) = d - 1
    /\ \A L \in 0..(d - 2) :
          /\ Len(At(c.fptr, L)) = Len(At(c.fids, L)) + 1
          /\ Nondecreasing(At(c.fptr, L))
          /\ At(At(c.fptr, L), 0) = 0
          /\ At(At(c.fptr, L), Len(At(c.fids, L))) = Len(At(c.fids, L + 1))
    /\ Len(c.vals) = Len(At(c.fids, d - 1))

\* the naive sum of the coordinate at dimension col over a set of rows
RECURSIVE RowsSum(_, _)
RowsSum(rows, col) ==
    IF rows = {} THEN 0
    ELSE LET r == CHOOSE r \in rows : TRUE
         IN  At(r[1], col) + RowsSum(rows \ {r}, col)

\* the entry of level L above entry cur of level L + 1: one less than the
\* smallest position whose pointer exceeds cur
ParentOf(c, L, cur) ==
    (CHOOSE j \in 0..(Len(At(c.fptr, L)) - 1) :
        /\ At(At(c.fptr, L), j) > cur
        /\ \A i \in 0..(j - 1) : At(At(c.fptr, L), i) <= cur) - 1

\* the entry of level L on the path from the root to leaf i
RECURSIVE Ancestor(_, _, _)
Ancestor(c, L, i) ==
    IF L = Len(c.fids) - 1 THEN i ELSE ParentOf(c, L, Ancestor(c, L + 1, i))

\* the coordinate of leaf i at dimension col
LeafCoord(c, col, i) == At(At(c.fids, col), Ancestor(c, col, i))

Leaves(c) == 0..(Len(c.vals) - 1)

\* the naive sum of the coordinate at dimension col over the leaves
LeavesSum(c, col) == SumSeq([n \in 1..Len(c.vals) |-> LeafCoord(c, col, n - 1)])

\* ------------------------------------------------------------ the claims
\* C1: round trip.  Once an instance built from consistent rows of one length
\* has been iterated to completion, the rows next() yielded are exactly the
\* distinct rows inserted, each with its own value and none twice, whatever
\* the order (and repetition) of the inserts.
C1_RoundTrip ==
    (phase = "built" /\ Consistent(input) /\ op.name = "next" /\ returned = None) =>
        /\ {yielded[k] : k \in 1..Len(yielded)} = input
        /\ Len(yielded) = Cardinality(input)

C1_Witness ==
    /\ phase = "built" /\ Consistent(input) /\ op.name = "next" /\ returned = None
    /\ Cardinality(input) = 3
    /\ \E r \in input : Len(r[1]) = 3
    /\ Len(yielded) = 3

\* C2: structural invariants of construction.  An instance built from a
\* non-empty set of rows of length D has D levels, D - 1 pointer rows, each
\* pointer row one longer than its level, nondecreasing, from 0 to the
\* length of the level below, and one value per entry of the last level.
C2_StructuralInvariants ==
    (phase = "built" /\ input # {}) => WellFormed(csf, RowLen(input))

C2_Witness ==
    /\ phase = "built"
    /\ Cardinality(input) = 3
    /\ RowLen(input) = 3
    /\ Len(csf.fptr) = 2
    /\ Len(csf.vals) = 3

\* C3: sum_column(col), col in 0..D-1, on a well-formed instance of D >= 1
\* levels is the naive sum of the coordinate at col over the leaves; on an
\* instance built from consistent rows that is the sum over the rows inserted.
C3_SumColumn ==
    (/\ phase \in {"built", "new"}
     /\ op.name = "sum_column"
     /\ Len(csf.fids) >= 1
     /\ WellFormed(csf, Len(csf.fids))
     /\ op.arg < Len(csf.fids)) =>
        /\ returned = Ok(LeavesSum(csf, op.arg))
        /\ (phase = "built" /\ Consistent(input)) => returned = Ok(RowsSum(input, op.arg))

C3_Witness ==
    /\ phase = "built" /\ Consistent(input)
    /\ op.name = "sum_column" /\ op.arg = 0
    /\ Len(csf.fids) = 3
    /\ Len(csf.vals) = 3
    /\ Len(At(csf.fids, 0)) = 2
    /\ returned = Ok(RowsSum(input, 0))

\* C4: expand_row(i), i a leaf of a well-formed instance of D levels, returns
\* the tuple of length D whose entry at each level is the entry on the path
\* from the root to leaf i (the parent being one less than the smallest
\* position whose pointer exceeds the child), in order 0 .. D-1, and vals[i].
C4_ExpandRow ==
    (/\ phase \in {"built", "new"}
     /\ op.name = "expand_row"
     /\ Len(csf.fids) >= 1
     /\ WellFormed(csf, Len(csf.fids))
     /\ op.arg < Len(csf.vals)) =>
        /\ returned.tag = "ok"
        /\ Len(returned.val[1]) = Len(csf.fids)
        /\ \A L \in 0..(Len(csf.fids) - 1) :
               At(returned.val[1], L) = LeafCoord(csf, L, op.arg)
        /\ returned.val[2] = At(csf.vals, op.arg)

C4_Witness ==
    /\ phase = "new"
    /\ WellFormed(csf, 3)
    /\ op.name = "expand_row" /\ op.arg = 1
    /\ \E k \in 1..(Len(csf.fptr[2]) - 1) : csf.fptr[2][k] = csf.fptr[2][k + 1]
    /\ returned.tag = "ok"
    /\ Len(returned.val[1]) = 3

\* C5: group ordering.  In a built instance, level 0 as a whole and, below
\* it, every slice of a level delimited by consecutive pointers of the level
\* above, is strictly ascending.
C5_GroupOrdering ==
    (phase = "built" /\ input # {}) =>
        /\ StrictlyAscending(At(csf.fids, 0))
        /\ \A L \in 1..(Len(csf.fids) - 1) :
              \A k \in 0..(Len(At(csf.fptr, L - 1)) - 2) :
                  StrictlyAscending(SubSeq(At(csf.fids, L),
                                           At(At(csf.fptr, L - 1), k) + 1,
                                           At(At(csf.fptr, L - 1), k + 1)))

C5_Witness ==
    /\ phase = "built"
    /\ Len(csf.fids) = 2
    /\ At(csf.fids, 0) = <<1, 2>>
    /\ At(csf.fids, 1) = <<2, 1, 2>>

\* C6: sequential iteration.  The k-th call of next() on a fresh instance of
\* n leaves returns expand_row(k - 1) for k <= n and None for every k > n,
\* so exactly n rows are yielded.
C6_SequentialIteration ==
    (phase \in {"built", "new"} /\ op.name = "next") =>
        LET k == op.arg
            n == Len(csf.vals)
        IN  /\ k <= n => /\ expand_row(csf, k - 1).tag = "ok"
                         /\ returned = Some(expand_row(csf, k - 1).val)
            /\ k > n => returned = None
            /\ Len(yielded) = Min(k, n)
            /\ \A m \in 1..Len(yielded) : yielded[m] = expand_row(csf, m - 1).val

C6_Witness ==
    /\ phase = "built"
    /\ Len(csf.vals) = 3
    /\ op.name = "next" /\ op.arg = 5
    /\ returned = None
    /\ Len(yielded) = 3

\* C7: out-of-range arguments fail fast.  expand_row(i) with i >= len(vals)
\* and sum_column(col) with col > D panic on every instance.
C7_OutOfRangePanics ==
    /\ (op.name = "expand_row" /\ op.arg >= Len(csf.vals)) => returned = Panic
    /\ (op.name = "sum_column" /\ op.arg > Len(csf.fids)) => returned = Panic

C7_Witness ==
    /\ phase = "built"
    /\ Len(csf.fids) = 2
    /\ op.name = "sum_column" /\ op.arg = 3
    /\ returned = Panic

\* C8 as stated: sum_column(D) on a well-formed instance of D levels returns a result.
C8_SumColumnAcceptsD ==
    (/\ op.name = "sum_column"
     /\ Len(csf.fids) >= 1
     /\ WellFormed(csf, Len(csf.fids))
     /\ op.arg = Len(csf.fids)) => returned.tag = "ok"

\* C8 as amended: on a well-formed instance of D >= 1 levels sum_column(col)
\* returns a result exactly for col in 0..D-1; the special case is
\* col = D - 1 (= len(fptr)), the unweighted sum of fids[D-1]; sum_column(D)
\* panics.
C8_SumColumnRange ==
    (/\ op.name = "sum_column"
     /\ Len(csf.fids) >= 1
     /\ WellFormed(csf, Len(csf.fids))) =>
        /\ returned.tag = "ok" <=> op.arg <= Len(csf.fids) - 1
        /\ op.arg = Len(csf.fids) - 1 =>
               returned = Ok(SumSeq(At(csf.fids, Len(csf.fids) - 1)))
        /\ op.arg = Len(csf.fids) => returned = Panic

C8_Witness ==
    /\ phase = "built"
    /\ Len(csf.fids) = 3
    /\ Len(csf.vals) = 3
    /\ op.name = "sum_column" /\ op.arg = 3
    /\ returned = Panic

\* C9: empty input.  Building from no rows yields an instance whose fptr,
\* fids and vals are empty, and its first next() returns None.
C9_EmptyInput ==
    (phase = "built" /\ input = {}) =>
        /\ csf = new(<<>>, <<>>, <<>>)
        /\ (op.name = "next" /\ op.arg = 1) => returned = None

C9_Witness ==
    /\ phase = "built" /\ input = {}
    /\ op.name = "next" /\ op.arg = 1
    /\ returned = None

\* C10: leaf order is coordinate-sorted.  In an instance built from
\* consistent rows of one length, the tuples of expand_row(i) ascend
\* strictly in lexicographic order with i, and leaf i holds the row of the
\* i-th smallest tuple inserted, with its value.
C10_LeafOrder ==
    (phase = "built" /\ Consistent(input)) =>
        /\ Len(csf.vals) = Cardinality(input)
        /\ \A i \in Leaves(csf) :
              /\ expand_row(csf, i).tag = "ok"
              /\ expand_row(csf, i).val \in input
              /\ Cardinality({r \in input : LexLess(r[1], expand_row(csf, i).val[1])}) = i
        /\ \A i, j \in Leaves(csf) :
              i < j => LexLess(expand_row(csf, i).val[1], expand_row(csf, j).val[1])

C10_Witness ==
    /\ phase = "built" /\ Consistent(input)
    /\ Cardinality(input) = 3
    /\ Len(csf.fids) = 3
    /\ expand_row(csf, 0).val[1] = <<1, 2, 2>>
    /\ expand_row(csf, 1).val[1] = <<2, 1, 1>>
    /\ expand_row(csf, 2).val[1] = <<2, 1, 2>>

=============================================================================
